---- MODULE Spec2Model ----
(***************************************************************************)
(* A model of the RouteMap component (src/components/RouteMap.tsx): the    *)
(* projection of coordinates onto the canvas, the decimation of a route's  *)
(* waypoints, the instantaneous and the animated rendering of routes, and  *)
(* the re-render effect with its sweep of animation frame handles.         *)
(*                                                                         *)
(* JavaScript runs the effect, an animation frame callback and the         *)
(* microtasks it queues (the continuation of an await) to completion       *)
(* before the next task starts, so each of them is one action here.        *)
(* Numbers are exact: coordinates and times are integers, a resolution is  *)
(* a fraction num/den, and every quotient the code rounds or compares is   *)
(* rounded or compared exactly (no floating-point rounding).               *)
(*                                                                         *)
(* Time.  The code uses the host's clock only in the difference            *)
(* timestamp - lastPointAddedAtTime, so the origin of the clock is free.   *)
(* The model keeps the origin at the latest reading: a frame callback runs *)
(* at time 0, and the time stored by an animation that is still scheduled  *)
(* moves back by the time that passed since the previous reading.          *)
(***************************************************************************)
EXTENDS Integers, Sequences, FiniteSets, TLC

VARIABLES
    canvas,      \* canvasRef.current: what the ref and getContext("2d") give, and the size
    surface,     \* the pixels: the paint operations since the last clearRect, in order
    log,         \* history: every surface call ever made, with the pass that made it
    passes,      \* one record per call of renderRoutes (per firing of the effect)
    frames,      \* the host's list of animation frame callbacks not yet run
    lastHandle,  \* the document's animation frame callback identifier
    probe        \* the arguments and the result of the pure function last applied

vars == <<canvas, surface, log, passes, frames, lastHandle, probe>>

(***************************************************************************)
(* Bounds of the model and the pools the inputs are drawn from.            *)
(***************************************************************************)
MaxPasses == 2
MaxTracks == 2
MaxWaypoints == 4
MaxGap == 2
AnimDuration == 10
MaxDen == 5
MaxProbeLen == 8

SweepLimit == 99999

Null == <<>>
Some(v) == <<v>>
Val(o) == o[1]

Min(a, b) == IF a <= b THEN a ELSE b

NullColor == "null"

\* A resolution num/den, den > 0.
Frac(n, d) == [num |-> n, den |-> d]

ResolutionPool == {Frac(0, 1), Frac(1, 3), Frac(1, 1), Frac(3, 2)}
DurationPool == {0, AnimDuration}
BgColorPool == {NullColor, "white"}
GeoBoundsPool == {[leftLon |-> -10, rightLon |-> 10, upperLat |-> 10, lowerLat |-> -10]}

\* The k-th recorded point of the route at position id of a list.
WaypointOf(id, k) == [lat |-> 2 * k - 6 + id, lon |-> 3 * k - 8]

MkRoute(id, n) == [id |-> id, waypoints |-> [k \in 1..n |-> WaypointOf(id, k)]]

\* Lists of up to MaxTracks routes of n recorded points each.
WaypointCounts == {0, 1, MaxWaypoints}

RoutesPool == {[i \in 1..m |-> MkRoute(i, n)] : m \in 0..MaxTracks, n \in WaypointCounts}

PropsPool ==
    [routes : RoutesPool, geoBounds : GeoBoundsPool, pathResolution : ResolutionPool,
     duration : DurationPool, thickness : {1}, bgColor : BgColorPool,
     pathColor : {"rgb(0,0,0,0.25)"}]

(***************************************************************************)
(* Projection.                                                             *)
(***************************************************************************)
normalizeLat(lat) == 90 - lat
normalizeLon(lon) == 180 + lon

normalizeCoordinates(c) == [x |-> normalizeLon(c.lon), y |-> normalizeLat(c.lat)]

\* Math.round of the quotient num / den (den # 0): the nearest integer, a tie
\* going up.
MathRound(num, den) ==
    IF den > 0 THEN (2 * num + den) \div (2 * den)
    ELSE (2 * (0 - num) + (0 - den)) \div (2 * (0 - den))

xRangeOf(geoBounds) == normalizeLon(geoBounds.rightLon) - normalizeLon(geoBounds.leftLon)

\* Mutation: the two latitudes are subtracted the other way round.
yRangeOfSwapped(geoBounds) ==
    normalizeLat(geoBounds.upperLat) - normalizeLat(geoBounds.lowerLat)

yRangeOf(geoBounds) == normalizeLat(geoBounds.lowerLat) - normalizeLat(geoBounds.upperLat)

\* Mutation: the pixel is clamped to the canvas.
coordinatesToBoundedCanvasPointClamped(c, cv, geoBounds) ==
    LET x == MathRound((normalizeLon(c.lon) - normalizeLon(geoBounds.leftLon)) * cv.width,
                       xRangeOf(geoBounds))
        y == MathRound((normalizeLat(c.lat) - normalizeLat(geoBounds.upperLat)) * cv.height,
                       yRangeOf(geoBounds))
    IN  [x |-> IF x < 0 THEN 0 ELSE Min(x, cv.width),
         y |-> IF y < 0 THEN 0 ELSE Min(y, cv.height)]

coordinatesToBoundedCanvasPoint(c, cv, geoBounds) ==
    LET normalizedCoords == normalizeCoordinates(c)
        normalizedMinX == normalizeLon(geoBounds.leftLon)
        normalizedMinY == normalizeLat(geoBounds.upperLat)
    IN  [x |-> MathRound((normalizedCoords.x - normalizedMinX) * cv.width,
                         xRangeOf(geoBounds)),
         y |-> MathRound((normalizedCoords.y - normalizedMinY) * cv.height,
                         yRangeOf(geoBounds))]

(***************************************************************************)
(* The size of the canvas element.                                         *)
(***************************************************************************)
MAX_WIDTH == 20000

MathAbs(x) == IF x < 0 THEN -x ELSE x

widthInDegrees(geoBounds) == MathAbs(geoBounds.leftLon - geoBounds.rightLon)
heightInDegrees(geoBounds) == MathAbs(geoBounds.upperLat - geoBounds.lowerLat)

\* Mutation: the width is not capped.
effectiveWidthUncapped(geoBounds, mapResolution) == widthInDegrees(geoBounds) * mapResolution

\* Math.min(widthInDegrees * mapResolution, MAX_WIDTH)
effectiveWidth(geoBounds, mapResolution) ==
    Min(widthInDegrees(geoBounds) * mapResolution, MAX_WIDTH)

\* effectiveWidth / aspectRatio with aspectRatio = widthInDegrees / heightInDegrees,
\* as the fraction effectiveWidth * heightInDegrees / widthInDegrees
effectiveHeight(geoBounds, mapResolution) ==
    Frac(effectiveWidth(geoBounds, mapResolution) * heightInDegrees(geoBounds),
         widthInDegrees(geoBounds))

(***************************************************************************)
(* Decimation of a route's waypoints.  Arrays are indexed from 0 in the    *)
(* code and sequences from 1 here: At(arr, j) is arr[j].                   *)
(***************************************************************************)
At(arr, j) == arr[j + 1]
Undefined(arr, j) == j < 0 \/ j >= Len(arr)

\* Mutation: a resolution of 0 passes the check.
ResolutionInvalidStrict(r) == r.num < 0 \/ r.num > r.den

ResolutionInvalid(r) == r.num <= 0 \/ r.num > r.den

\* Math.ceil(1 / pathResolution).  1 / 0 is Infinity, written 0 here.
RenderEveryNthPoint(r) == IF r.num = 0 THEN 0 ELSE (r.den + r.num - 1) \div r.num

\* i % n for i >= 0: i % Infinity is i.
JsRemainder(i, n) == IF n = 0 THEN i ELSE i % n

\* Mutation: the last index is not forced in.
KeepIndexWithoutLast(i, n, len) == i = 0 \/ JsRemainder(i, n) = 0

\* Mutation: the test of the remainder is inverted.
KeepIndexInverted(i, n, len) == i = 0 \/ JsRemainder(i, n) # 0 \/ i = len - 1

KeepIndex(i, n, len) == i = 0 \/ JsRemainder(i, n) = 0 \/ i = len - 1

RECURSIVE KeptFrom(_, _, _)
KeptFrom(i, len, n) ==
    IF i >= len THEN <<>>
    ELSE (IF KeepIndex(i, n, len) THEN <<i>> ELSE <<>>) \o KeptFrom(i + 1, len, n)

\* Mutation: the multiples of the stride, and then the last index once more.
KeptIndicesPushingLast(len, r) ==
    LET multiples == SelectSeq([k \in 1..len |-> k - 1],
                               LAMBDA i : JsRemainder(i, RenderEveryNthPoint(r)) = 0)
    IN  IF len = 0 THEN <<>> ELSE Append(multiples, len - 1)

\* The indices filter lets through: each index is tested once, in order.
KeptIndices(len, r) == KeptFrom(0, len, RenderEveryNthPoint(r))

WaypointsToRender(waypoints, r) ==
    LET idx == KeptIndices(Len(waypoints), r)
    IN  [k \in 1..Len(idx) |-> At(waypoints, idx[k])]

(***************************************************************************)
(* Drawing.  A stroke is recorded on the surface with its two pixels and   *)
(* its style, and in the history with the route and the index of the       *)
(* waypoint the segment ends in.                                           *)
(***************************************************************************)
addPath(from, to, props, cv) ==
    [op |-> "stroke",
     from |-> coordinatesToBoundedCanvasPoint(from, cv, props.geoBounds),
     to |-> coordinatesToBoundedCanvasPoint(to, cv, props.geoBounds),
     lineWidth |-> props.thickness, strokeStyle |-> props.pathColor]

LogEntry(pass, op, route, seg) == [pass |-> pass, op |-> op, route |-> route, seg |-> seg]

\* The strokes of the segments ending in waypoints first .. last, in order.
Strokes(wps, first, last, props, cv) ==
    [j \in 1..(last - first + 1) |->
        addPath(At(wps, first + j - 2), At(wps, first + j - 1), props, cv)]

StrokeEntries(pass, route, first, last) ==
    [j \in 1..(last - first + 1) |-> LogEntry(pass, "stroke", route, first + j - 1)]

\* Mutation: a fill whenever the colour is not the empty string.
TruthyUnlessEmpty(color) == color # ""

\* if (bgColor): neither null nor the empty string
Truthy(color) == color # NullColor /\ color # ""

\* Mutation: the routes are taken from the last to the first.
RouteAtReversed(routes, i) == routes[Len(routes) - i + 1]

RouteAt(routes, i) == routes[i]

\* Mutation: the decimation edits the track's own waypoint array in place.
RouteAfterFilterInPlace(route, kept) == [route EXCEPT !.waypoints = kept]

\* route.waypoints.filter(...) returns a new array: the route the caller
\* passed in is what it was before the call.
RouteAfterFilter(route, kept) == route

\* What the last tick of the route being animated did (history).
NoTick == [kind |-> "none", timeDiff |-> 0, undrawn |-> 0, drawn |-> 0]

\* Mutation: the instantaneous branch is never taken.
AwaitsAnimationAlways(duration) == duration >= 0

\* duration === 0 draws at once; anything else awaits animateRenderWaypoints
AwaitsAnimation(duration) == duration # 0

\* Mutation: the cursor starts one waypoint too far.
InitialWaypointIndexSkipping == 1 + 1

\* let waypointIndex = 1
InitialWaypointIndex == 1

\* window.requestAnimationFrame(step) by the pass st.pass: the next handle.
RequestAnimationFrame(st) ==
    LET h == st.lastHandle + 1
    IN  [st EXCEPT !.lastHandle = h,
                   !.frames = @ \cup {[handle |-> h, pass |-> st.pass.id]},
                   !.pass.lastAnimationFrame = Some(h)]

\* window.cancelAnimationFrame(h)
CancelAnimationFrame(fs, h) == {f \in fs : f.handle # h}

\* The body of renderRoutes' loop from the route at position i on, up to the
\* first await that suspends (or to the end).  st holds the surface, the
\* history, the host's frames and handle counter, and the pass.
RECURSIVE RunRoutes(_, _, _)
RunRoutes(st, i, cv) ==
    LET p == st.pass
        props == p.props
    IN  IF i > Len(props.routes) THEN [st EXCEPT !.pass.status = "resolved"]
        ELSE IF ~cv.context THEN [st EXCEPT !.pass.status = "returnedNull"]
        ELSE IF ResolutionInvalid(props.pathResolution)
        THEN [st EXCEPT !.pass.status = "rejected"]
        ELSE LET route == RouteAt(props.routes, i)
                 wps == WaypointsToRender(route.waypoints, props.pathResolution)
                 read == [st EXCEPT !.pass.props.routes[i] = RouteAfterFilter(route, wps)]
             IN  IF ~AwaitsAnimation(props.duration)
                 THEN RunRoutes(
                        [read EXCEPT
                           !.surface = @ \o Strokes(wps, 1, Len(wps) - 1, props, cv),
                           !.log = @ \o StrokeEntries(p.id, route.id, 1, Len(wps) - 1)],
                        i + 1, cv)
                 ELSE RequestAnimationFrame(
                        [read EXCEPT !.pass.routeIndex = i,
                                   !.pass.lastTick = NoTick,
                                   !.pass.route = route.id,
                                   !.pass.waypoints = wps,
                                   !.pass.waypointIndex = InitialWaypointIndex,
                                   !.pass.lastPointAddedAtTime = Null])

(***************************************************************************)
(* The animation step of one route (the callback of animateRenderWaypoints)*)
(***************************************************************************)
\* timeDiff >= delay, with delay = (duration / n) * 0.8
TimeDiffReachesDelay(timeDiff, n, duration) == 5 * n * timeDiff >= 4 * duration

\* Mutation: the quotient is rounded down.
NumPointsRoundedDown(timeDiff, n, duration) == (5 * n * timeDiff) \div (4 * duration)

\* Math.ceil(timeDiff / delay)
NumPointsToRenderThisFrame(timeDiff, n, duration) ==
    (5 * n * timeDiff + 4 * duration - 1) \div (4 * duration)

\* addPath destructures both of its points: the first tick throws a TypeError
\* when waypoints[waypointIndex - 1] or waypoints[waypointIndex] is undefined.
FirstTickThrows(p) ==
    /\ p.lastPointAddedAtTime = Null
    /\ \/ Undefined(p.waypoints, p.waypointIndex - 1)
       \/ Undefined(p.waypoints, p.waypointIndex)

\* How many segments the tick at timestamp draws: one on the first tick, and
\* afterwards as many as the loop's "if (wp)" lets through.
SegmentsThisTick(p, timestamp) ==
    LET n == Len(p.waypoints)
    IN  IF p.lastPointAddedAtTime = Null THEN 1
        ELSE LET timeDiff == timestamp - Val(p.lastPointAddedAtTime)
             IN  IF TimeDiffReachesDelay(timeDiff, n, p.props.duration)
                 THEN Min(NumPointsToRenderThisFrame(timeDiff, n, p.props.duration),
                          n - p.waypointIndex)
                 ELSE 0

\* Mutation: the signal fires one waypoint early.
AnimationFinishedEarly(waypointIndex, n) == ~(waypointIndex + 1 < n)

\* Mutation: a successor is also scheduled with the cursor at n.
AnimationFinishedLate(waypointIndex, n) == ~(waypointIndex <= n)

AnimationFinished(waypointIndex, n) == ~(waypointIndex < n)

\* Mutation: the cursor moves on one waypoint more than was drawn.
AdvanceCursorSkipping(waypointIndex, c) == waypointIndex + c + 1

\* waypointIndex += 1, once per segment drawn
AdvanceCursor(waypointIndex, c) == waypointIndex + c

\* The record of one tick: first or later, the time since the last segment,
\* the segments not yet drawn when it ran, and the segments it drew.
TickRecord(p, timestamp, c) ==
    [kind |-> IF p.lastPointAddedAtTime = Null THEN "first" ELSE "later",
     timeDiff |-> IF p.lastPointAddedAtTime = Null THEN 0
                  ELSE timestamp - Val(p.lastPointAddedAtTime),
     undrawn |-> Len(p.waypoints) - p.waypointIndex,
     drawn |-> c]

\* step(timestamp), run for the pass st.pass; now is what performance.now()
\* returns during the call.  The frame that ran has left st.frames already.
Step(st, timestamp, now, cv) ==
    LET p == st.pass
    IN  IF FirstTickThrows(p)
        THEN [st EXCEPT !.pass.stepThrew = TRUE, !.pass.lastTick = TickRecord(p, timestamp, 0)]
        ELSE
          LET c == SegmentsThisTick(p, timestamp)
              first == p.waypointIndex
              drawn ==
                [st EXCEPT
                   !.surface = @ \o Strokes(p.waypoints, first, first + c - 1, p.props, cv),
                   !.log = @ \o StrokeEntries(p.id, p.route, first, first + c - 1),
                   !.pass.waypointIndex = AdvanceCursor(first, c),
                   !.pass.lastTick = TickRecord(p, timestamp, c),
                   !.pass.lastPointAddedAtTime = IF c > 0 THEN Some(now) ELSE @]
          IN  IF ~AnimationFinished(drawn.pass.waypointIndex, Len(p.waypoints))
              THEN RequestAnimationFrame(drawn)
              ELSE RunRoutes(
                     [drawn EXCEPT
                        !.frames = CancelAnimationFrame(@, Val(p.lastAnimationFrame)),
                        !.pass.signalled = Append(@, p.routeIndex),
                        !.pass.signalledAt = Append(@, drawn.pass.waypointIndex)],
                     p.routeIndex + 1, cv)

(***************************************************************************)
(* The re-render effect: the sweep, then renderRoutes(routes).             *)
(***************************************************************************)
\* Mutation: the sweep cancels nothing.
SweepCancelsNothing(handle) == handle < 1

\* for (var i = 1; i < 99999; i++) window.cancelAnimationFrame(i)
SweepCancels(handle) == 1 <= handle /\ handle < SweepLimit

\* interrupts records whether an animation was in flight when the pass began.
NewPass(id, props, interrupts) ==
    [id |-> id, props |-> props, interrupts |-> interrupts,
     status |-> "pending", routeIndex |-> 0, route |-> 0,
     waypoints |-> <<>>, waypointIndex |-> 0, lastPointAddedAtTime |-> Null,
     lastAnimationFrame |-> Null, signalled |-> <<>>, signalledAt |-> <<>>,
     stepThrew |-> FALSE, lastTick |-> NoTick]

\* Mutation: only the canvas reference is looked at, not its context.
SurfaceUnavailableRefOnly(cv) == ~cv.mounted

\* canvas == null, or canvas.getContext("2d") == null
SurfaceUnavailable(cv) == ~cv.mounted \/ ~cv.context

\* Mutation: the surface is not cleared.
ClearRectNoop(s) == s

\* context.clearRect(0, 0, canvas.width, canvas.height)
ClearRect(s) == <<>>

\* renderRoutes(routesToRender) up to its first suspension.
RenderRoutes(st, cv) ==
    IF SurfaceUnavailable(cv) THEN [st EXCEPT !.pass.status = "returnedNull"]
    ELSE LET cleared == [st EXCEPT !.surface = ClearRect(@),
                                   !.log = Append(@, LogEntry(st.pass.id, "clear", 0, 0))]
             bgColor == st.pass.props.bgColor
             filled ==
               IF Truthy(bgColor)
               THEN [cleared EXCEPT
                       !.surface = Append(@, [op |-> "fill", fillStyle |-> bgColor]),
                       !.log = Append(@, LogEntry(st.pass.id, "fill", 0, 0))]
               ELSE cleared
         IN  RunRoutes(filled, 1, cv)

Install(st, ps) ==
    /\ surface' = st.surface
    /\ log' = st.log
    /\ frames' = st.frames
    /\ lastHandle' = st.lastHandle
    /\ passes' = IF st.pass.id > Len(ps) THEN Append(ps, st.pass)
                 ELSE [ps EXCEPT ![st.pass.id] = st.pass]

RenderEffect(props) ==
    /\ Len(passes) < MaxPasses
    /\ Install(RenderRoutes(
         [surface |-> surface, log |-> log,
          frames |-> {f \in frames : ~SweepCancels(f.handle)},
          lastHandle |-> lastHandle,
          pass |-> NewPass(Len(passes) + 1, props, frames # {})], canvas), passes)
    /\ UNCHANGED <<canvas, probe>>

HasFrame(id, fs) == \E f \in fs : f.pass = id

\* The closure of pass p, gap later (the time origin moves to the new reading).
Later(p, gap) ==
    IF p.lastPointAddedAtTime = Null THEN p
    ELSE [p EXCEPT !.lastPointAddedAtTime = Some(Val(@) - gap)]

\* The host runs the scheduled callback f, gap after the previous reading of
\* the clock; the callback's timestamp and its performance.now() are now, 0.
Tick(f, gap) ==
    LET ps == [i \in DOMAIN passes |->
                 IF HasFrame(i, frames) THEN Later(passes[i], gap) ELSE passes[i]]
    IN  /\ f \in frames
        /\ Install(Step(
             [surface |-> surface, log |-> log, frames |-> frames \ {f},
              lastHandle |-> lastHandle, pass |-> ps[f.pass]],
             0, 0, canvas), ps)
        /\ UNCHANGED <<canvas, probe>>

CanvasPool ==
    {[mounted |-> TRUE, context |-> TRUE, width |-> 100, height |-> 100],
     [mounted |-> TRUE, context |-> FALSE, width |-> 100, height |-> 100],
     [mounted |-> FALSE, context |-> FALSE, width |-> 100, height |-> 100]}

\* The handle counter belongs to the document: frames requested earlier on the
\* page, by this component or by any other script, have advanced it.
InitialHandles == {0, SweepLimit - 4}

NoProbe == [fn |-> "none"]

Init ==
    /\ canvas \in CanvasPool
    /\ surface = <<>>
    /\ log = <<>>
    /\ passes = <<>>
    /\ frames = {}
    /\ lastHandle \in InitialHandles
    /\ probe = NoProbe

Render == \E props \in PropsPool : RenderEffect(props)

Frame == \E f \in frames, gap \in 1..MaxGap : Tick(f, gap)

Next == Render \/ Frame

Spec == Init /\ [][Next]_vars

\* The page is fresh and the canvas is mounted.
LiveInit == Init /\ lastHandle = 0 /\ canvas.mounted /\ canvas.context

\* One render call that no later call supersedes.
OnlyRender == passes = <<>> /\ Render

LiveNext == OnlyRender \/ Frame

LiveSpec == LiveInit /\ [][LiveNext]_vars /\ WF_vars(Frame)

(***************************************************************************)
(* The pure functions on their own: decimation, projection and the size of *)
(* the canvas applied to arguments drawn from the pools below.             *)
(***************************************************************************)
ProbeResolutions ==
    {r \in {Frac(n, d) : n \in 1..MaxDen, d \in 1..MaxDen} : r.num <= r.den}

ProbeWaypoints == {MkRoute(id, n).waypoints : id \in 1..2, n \in 0..MaxProbeLen}

ProbeBounds ==
    {[leftLon |-> -10, rightLon |-> 10, upperLat |-> 10, lowerLat |-> -10],
     [leftLon |-> 2, rightLon |-> 6, upperLat |-> 5, lowerLat |-> -1]}

\* Coordinates inside, on the edges of, far outside and just outside the bounds.
ProbeCoords == [lat : {-10, -4, 0, 2, 5, 6, 10}, lon : {-10, -3, 0, 4, 6, 10, 11}]

ProbeSizes == {<<100, 100>>, <<5, 3>>, <<4, 7>>}

\* Bounds up to the whole 360 degrees of longitude, one given right to left.
SizeBounds ==
    ProbeBounds \cup
    {[leftLon |-> -180, rightLon |-> 180, upperLat |-> 90, lowerLat |-> -90],
     [leftLon |-> 30, rightLon |-> -20, upperLat |-> 40, lowerLat |-> 15]}

MapResolutions == {0, 1, 55, 56, 400, 1000, 5000, 100000}

Decimate(waypoints, r) ==
    /\ probe' = [fn |-> "decimate", waypoints |-> waypoints, resolution |-> r,
                 result |-> WaypointsToRender(waypoints, r)]
    /\ UNCHANGED <<canvas, surface, log, passes, frames, lastHandle>>

Project(c, geoBounds, size) ==
    /\ probe' = [fn |-> "project", coord |-> c, geoBounds |-> geoBounds,
                 width |-> size[1], height |-> size[2],
                 result |-> coordinatesToBoundedCanvasPoint(
                              c, [width |-> size[1], height |-> size[2]], geoBounds)]
    /\ UNCHANGED <<canvas, surface, log, passes, frames, lastHandle>>

Size(geoBounds, mapResolution) ==
    /\ probe' = [fn |-> "size", geoBounds |-> geoBounds, mapResolution |-> mapResolution,
                 width |-> effectiveWidth(geoBounds, mapResolution),
                 height |-> effectiveHeight(geoBounds, mapResolution)]
    /\ UNCHANGED <<canvas, surface, log, passes, frames, lastHandle>>

DecimateStep == \E w \in ProbeWaypoints, r \in ProbeResolutions : Decimate(w, r)

ProjectStep == \E c \in ProbeCoords, b \in ProbeBounds, size \in ProbeSizes : Project(c, b, size)

FnInit == LiveInit

SizeStep == \E b \in SizeBounds, m \in MapResolutions : Size(b, m)

FnNext == DecimateStep \/ ProjectStep \/ SizeStep

FnSpec == FnInit /\ [][FnNext]_vars

(***************************************************************************)
(* Properties.                                                             *)
(***************************************************************************)
CanvasAvailable == canvas.mounted /\ canvas.context

Range(seq) == {seq[k] : k \in DOMAIN seq}

\* What renderRoutes does with props when nothing suspends it: the state
\* after an instantaneous render on a blank surface.
InstantRender(id, props) ==
    RenderRoutes([surface |-> <<>>, log |-> <<>>, frames |-> {}, lastHandle |-> 0,
                  pass |-> NewPass(id, [props EXCEPT !.duration = 0], FALSE)], canvas)

\* The strokes pass id made for the route with identifier route, in order.
StrokesOf(id, route) ==
    SelectSeq(log, LAMBDA e : e.pass = id /\ e.op = "stroke" /\ e.route = route)

EntriesOf(id) == SelectSeq(log, LAMBDA e : e.pass = id)

Decimated(p, i) == WaypointsToRender(p.props.routes[i].waypoints, p.props.pathResolution)

\* C1: when a new pass starts, every tick of an earlier pass is cancelled,
\* whatever its handle: only the latest pass ever holds a scheduled tick, and
\* no earlier pass touches the surface after a later pass has started.
C1_EarlierTicksAllCancelled ==
    /\ \A f \in frames : f.pass = Len(passes)
    /\ \A a, b \in DOMAIN log : a < b => log[a].pass <= log[b].pass

\* C2: a render call issued while the previous call's animation was in flight
\* leaves, once it has completed, exactly the surface of a fresh render of its
\* own inputs.
C2_SecondCallAloneOnSurface ==
    \A i \in DOMAIN passes :
        (/\ i = Len(passes)
         /\ passes[i].interrupts
         /\ passes[i].status = "resolved")
        => surface = InstantRender(i, passes[i].props).surface

\* C3: within one render call the routes are drawn in the caller's order: a
\* stroke of a later route never precedes a stroke of an earlier one, and
\* while the route at position j has a tick scheduled, every route before it
\* has fired its completion signal and has all its segments drawn.
C3_TracksInCallerOrder ==
    /\ \A a, b \in DOMAIN log :
         (a < b /\ log[a].pass = log[b].pass /\ log[a].op = "stroke" /\ log[b].op = "stroke")
         => log[a].route <= log[b].route
    /\ \A f \in frames :
         LET p == passes[f.pass]
         IN  \A i \in 1..(p.routeIndex - 1) :
                /\ i \in Range(p.signalled)
                /\ Len(StrokesOf(p.id, p.props.routes[i].id)) = Len(Decimated(p, i)) - 1
    /\ \A p \in Range(passes) : \A i \in DOMAIN p.props.routes : p.props.routes[i].id = i

\* An animated pass is drawing its second route after all of its first.
C3_Witness ==
    \E f \in frames :
        LET p == passes[f.pass]
        IN  /\ p.routeIndex = 2
            /\ p.waypointIndex > 2
            /\ Len(StrokesOf(p.id, 1)) >= 3

\* A resolution outside (0, 1].
OutsideUnitInterval(r) == r.num <= 0 \/ r.num > r.den

\* The i-th render call is an animated one with a valid resolution.
AnimatedCall(i) ==
    IF i \in DOMAIN passes
    THEN passes[i].props.duration > 0
         /\ ~OutsideUnitInterval(passes[i].props.pathResolution)
    ELSE FALSE

\* The i-th render call has resolved or has been superseded by a later one.
ResolvedOrSuperseded(i) ==
    IF i \in DOMAIN passes
    THEN Len(passes) > i \/ passes[i].status = "resolved"
    ELSE FALSE

\* C4: with the frames delivered and no later render call, every animated
\* render call (duration > 0, valid resolution) eventually resolves.
C4_AnimationTerminates ==
    \A i \in 1..MaxPasses : AnimatedCall(i) ~> ResolvedOrSuperseded(i)

\* C5: the completion signal of an animated route fires at most once, only
\* with the cursor at n and all n - 1 segments drawn, and afterwards the route
\* has no tick scheduled and gets no further segment.
C5_SignalOnceWhenAllDrawn ==
    \A p \in Range(passes) :
        /\ \A a, b \in DOMAIN p.signalled : a # b => p.signalled[a] # p.signalled[b]
        /\ \A k \in DOMAIN p.signalled :
             LET i == p.signalled[k]
                 n == Len(Decimated(p, i))
             IN  /\ p.signalledAt[k] = n
                 /\ Len(StrokesOf(p.id, p.props.routes[i].id)) = n - 1
        /\ HasFrame(p.id, frames) => p.routeIndex \notin Range(p.signalled)

\* The signal of a route animated over several ticks has fired.
C5_Witness ==
    \E p \in Range(passes) :
        /\ p.signalled # <<>>
        /\ Len(Decimated(p, p.signalled[1])) >= 4

\* C6: when an animated render has completed, the calls it made on the
\* surface are those of the instantaneous render of the same inputs, in the
\* same order, and (no other pass interfering) so is the surface.
C6_AnimatedEqualsInstant ==
    \A p \in Range(passes) :
        (p.props.duration > 0 /\ p.status = "resolved")
        => /\ EntriesOf(p.id) = InstantRender(p.id, p.props).log
           /\ Len(passes) = 1 => surface = InstantRender(p.id, p.props).surface

\* A single animated pass has completed with several segments on the surface.
C6_Witness ==
    /\ Len(passes) = 1
    /\ passes[1].props.duration > 0
    /\ passes[1].status = "resolved"
    /\ Len(surface) >= 6

FracLeq(r1, r2) == r1.num * r2.den <= r2.num * r1.den

\* C8: for n >= 2 waypoints and a resolution in (0, 1], the decimated
\* sequence starts with the waypoint at index 0 and ends with the one at
\* index n - 1.
C8_DecimationKeepsEndpoints ==
    (probe.fn = "decimate" /\ Len(probe.waypoints) >= 2)
    => /\ Len(probe.result) >= 2
       /\ probe.result[1] = probe.waypoints[1]
       /\ probe.result[Len(probe.result)] = probe.waypoints[Len(probe.waypoints)]

\* Six waypoints decimated with stride 3: the last index, 5, is forced in.
C8_Witness ==
    /\ probe.fn = "decimate"
    /\ probe.resolution = Frac(1, 3)
    /\ Len(probe.waypoints) = 6
    /\ Len(probe.result) = 3

\* C9: for a fixed waypoint sequence and resolutions r1 <= r2 in (0, 1], the
\* decimated sequence for r1 is no longer than the one for r2.
C9_DecimationMonotone ==
    probe.fn = "decimate"
    => \A r2 \in ProbeResolutions :
          FracLeq(probe.resolution, r2)
          => Len(probe.result) <= Len(WaypointsToRender(probe.waypoints, r2))

\* A decimation whose forced last index is no multiple of the stride, and a
\* larger resolution with another stride that keeps strictly more waypoints.
C9_Witness ==
    /\ probe.fn = "decimate"
    /\ (Len(probe.waypoints) - 1) % RenderEveryNthPoint(probe.resolution) # 0
    /\ \E r2 \in ProbeResolutions :
          /\ FracLeq(probe.resolution, r2)
          /\ RenderEveryNthPoint(r2) # RenderEveryNthPoint(probe.resolution)
          /\ Len(probe.result) < Len(WaypointsToRender(probe.waypoints, r2))

\* x is v = num / den (den > 0) rounded to the nearest integer, a tie going up.
IsRounded(x, num, den) == 2 * den * x - den <= 2 * num /\ 2 * num < 2 * den * x + den

IsUpperLeft(c, b) == c.lat = b.upperLat /\ c.lon = b.leftLon
IsCentre(c, b) == 2 * c.lat = b.upperLat + b.lowerLat /\ 2 * c.lon = b.leftLon + b.rightLon

\* C10 as stated: the centre of the bounds projects to (W/2, H/2).
C10_CentreIsHalfTheSurface ==
    (probe.fn = "project" /\ IsCentre(probe.coord, probe.geoBounds))
    => (2 * probe.result.x = probe.width /\ 2 * probe.result.y = probe.height)

\* C10: x = round((lon - leftLon) / (rightLon - leftLon) * W) and
\* y = round((upperLat - lat) / (upperLat - lowerLat) * H); the upper-left
\* corner projects to (0, 0) and the centre to (round(W/2), round(H/2)), which
\* is (W/2, H/2) when W and H are even: (50, 50) on 100 x 100.
C10_ProjectionFormula ==
    probe.fn = "project"
    => LET c == probe.coord
           b == probe.geoBounds
       IN  /\ IsRounded(probe.result.x, (c.lon - b.leftLon) * probe.width,
                        b.rightLon - b.leftLon)
           /\ IsRounded(probe.result.y, (b.upperLat - c.lat) * probe.height,
                        b.upperLat - b.lowerLat)
           /\ IsUpperLeft(c, b) => probe.result = [x |-> 0, y |-> 0]
           /\ IsCentre(c, b) =>
                /\ IsRounded(probe.result.x, probe.width, 2)
                /\ IsRounded(probe.result.y, probe.height, 2)
                /\ (probe.width % 2 = 0 /\ probe.height % 2 = 0)
                   => (2 * probe.result.x = probe.width /\ 2 * probe.result.y = probe.height)
           /\ (c = [lat |-> 0, lon |-> 0] /\ b.leftLon = -10 /\ probe.width = 100
               /\ probe.height = 100)
              => probe.result = [x |-> 50, y |-> 50]

\* The centre of the bounds {-10, 10, 10, -10} projected onto 100 x 100.
C10_Witness ==
    /\ probe.fn = "project"
    /\ probe.coord = [lat |-> 0, lon |-> 0]
    /\ probe.geoBounds = [leftLon |-> -10, rightLon |-> 10, upperLat |-> 10, lowerLat |-> -10]
    /\ probe.width = 100
    /\ probe.height = 100
    /\ probe.result = [x |-> 50, y |-> 50]

\* C11: for non-degenerate bounds of up to 360 degrees of longitude and a
\* non-negative number of pixels per degree, the width of the canvas is the
\* smaller of widthInDegrees * mapResolution and MAX_WIDTH: it is at most
\* either of them and equal to one of them, so it never exceeds 20000.
C11_WidthIsCappedProduct ==
    probe.fn = "size" =>
      LET b == probe.geoBounds
          span == IF b.rightLon >= b.leftLon THEN b.rightLon - b.leftLon
                  ELSE b.leftLon - b.rightLon
          product == span * probe.mapResolution
      IN  /\ probe.width <= 20000
          /\ probe.width <= product
          /\ probe.width = product \/ probe.width = 20000
          /\ (product <= 20000) => probe.width = product

\* The whole 360 degrees at a resolution whose product is beyond the cap.
C11_Witness ==
    /\ probe.fn = "size"
    /\ probe.geoBounds.rightLon - probe.geoBounds.leftLon = 360
    /\ probe.mapResolution = 100000
    /\ probe.width = 20000
\* C12: when the canvas or its 2D context cannot be acquired, a render call
\* performs no surface operation (no clear, no fill, no stroke), schedules no
\* frame and returns (null) without an error, whatever its routes and
\* configuration are.
C12_UnavailableSurfaceIsNoOp ==
    ~CanvasAvailable =>
      /\ surface = <<>>
      /\ log = <<>>
      /\ frames = {}
      /\ lastHandle \in InitialHandles
      /\ \A i \in DOMAIN passes :
            /\ passes[i].status = "returnedNull"
            /\ passes[i].lastAnimationFrame = Null
            /\ ~passes[i].stepThrew

\* A call with routes, a background colour, an animation and an invalid
\* resolution, on a canvas whose context is missing.
C12_Witness ==
    /\ canvas.mounted /\ ~canvas.context
    /\ passes # <<>>
    /\ passes[1].props.routes # <<>>
    /\ passes[1].props.duration # 0
    /\ passes[1].props.bgColor # NullColor
    /\ OutsideUnitInterval(passes[1].props.pathResolution)
\* C13: a render call that fails on an invalid pathResolution leaves the
\* surface exactly as it was before the call: not cleared, not refilled with
\* the background colour, not overdrawn.
C13_FailedCallLeavesSurface ==
    [][(/\ Len(passes') = Len(passes) + 1
        /\ passes'[Len(passes')].status = "rejected") => surface' = surface]_vars
\* The position of the last clear in the history (0 when there is none): what
\* came after it is what the surface shows.
LastClear ==
    LET cs == {k \in DOMAIN log : log[k].op = "clear"}
    IN  IF cs = {} THEN 0 ELSE CHOOSE k \in cs : \A j \in cs : j <= k

\* The stroke that joins waypoints seg - 1 and seg of the decimated route.
SegmentOf(p, route, seg) ==
    addPath(At(Decimated(p, route), seg - 1), At(Decimated(p, route), seg), p.props, canvas)

\* C14: within one route the segments are drawn in waypoint order, in both
\* modes: the k-th segment a pass draws of a route is the one that joins the
\* decimated waypoints k-1 and k (none skipped, repeated or out of order, also
\* when one tick draws several), the cursor of an animation is one more than
\* the number of segments drawn, and each stroke on the surface joins the
\* pixels of the two waypoints of its segment.
C14_SegmentsInWaypointOrder ==
    /\ \A p \in Range(passes) : \A r \in DOMAIN p.props.routes :
          LET drawn == StrokesOf(p.id, r)
          IN  /\ \A k \in DOMAIN drawn : drawn[k].seg = k
              /\ Len(drawn) < Len(Decimated(p, r)) \/ drawn = <<>>
    /\ \A p \in Range(passes) :
          (p.props.duration # 0 /\ p.route # 0)
          => p.waypointIndex = 1 + Len(StrokesOf(p.id, p.route))
    /\ Len(surface) = Len(log) - LastClear
    /\ \A j \in DOMAIN surface :
          LET e == log[LastClear + j]
          IN  IF e.op = "stroke"
              THEN surface[j] = SegmentOf(passes[e.pass], e.route, e.seg)
              ELSE surface[j].op = e.op

\* A tick after the first has drawn several segments at once, and they are on
\* the surface.
C14_Witness ==
    /\ Len(passes) = 1
    /\ passes[1].lastTick.kind = "later"
    /\ passes[1].lastTick.drawn >= 2
    /\ Len(StrokesOf(1, passes[1].route)) >= 3
    /\ Len(surface) >= 3
\* The number of entries of seq with operation op.
CountOp(seq, op) == Len(SelectSeq(seq, LAMBDA e : e.op = op))

\* C15: in every render call on an available canvas the clear comes first
\* and only once; with a background colour exactly one fill follows, right
\* after the clear and so before every segment of every route; without a
\* background colour the call makes no fill.
C15_ClearThenOptionalFill ==
    CanvasAvailable =>
      \A p \in Range(passes) :
          LET es == EntriesOf(p.id)
              configured == p.props.bgColor \notin {NullColor, ""}
          IN  /\ es # <<>>
              /\ es[1].op = "clear"
              /\ CountOp(es, "clear") = 1
              /\ CountOp(es, "fill") = IF configured THEN 1 ELSE 0
              /\ configured => (Len(es) >= 2 /\ es[2].op = "fill")
              /\ \A k \in DOMAIN es : k > (IF configured THEN 2 ELSE 1) => es[k].op = "stroke"

\* Two calls with strokes, the first with a background colour and the second
\* without one.
C15_Witness ==
    /\ Len(passes) = 2
    /\ passes[1].props.bgColor # NullColor
    /\ passes[2].props.bgColor = NullColor
    /\ CountOp(EntriesOf(1), "stroke") >= 2
    /\ CountOp(EntriesOf(2), "stroke") >= 2
    /\ surface # <<>>
    /\ \A j \in DOMAIN surface : surface[j].op = "stroke"
\* c is the ceiling of num / den (den > 0).
IsCeiling(c, num, den) == (c - 1) * den < num /\ num <= c * den

\* C16: on a tick of an animated route after its first, with elapsed the
\* time since the last segment was drawn and budget = (duration / n) * 0.8,
\* so that elapsed / budget = 5 * n * elapsed / (4 * duration): no segment is
\* drawn when elapsed < budget, and otherwise exactly the smaller of
\* ceil(elapsed / budget) and the number of segments still undrawn.
C16_CatchUpCount ==
    \A p \in Range(passes) :
        p.lastTick.kind = "later" =>
          LET t == p.lastTick
              num == 5 * Len(p.waypoints) * t.timeDiff
              den == 4 * p.props.duration
          IN  IF num < den THEN t.drawn = 0
              ELSE \E c \in 1..num :
                     /\ IsCeiling(c, num, den)
                     /\ t.drawn = IF c <= t.undrawn THEN c ELSE t.undrawn

\* A tick after the first found more time elapsed than the undrawn segments
\* take, and drew what was left.
C16_Witness ==
    \E p \in Range(passes) :
        /\ p.lastTick.kind = "later"
        /\ p.lastTick.drawn = p.lastTick.undrawn
        /\ 5 * Len(p.waypoints) * p.lastTick.timeDiff > 4 * p.props.duration * p.lastTick.drawn
\* C17: the first tick of an animated route draws exactly one segment, the
\* one that joins the decimated waypoints 0 and 1, and nothing of the route
\* is drawn before that tick has run.
C17_FirstTickDrawsFirstSegment ==
    \A p \in Range(passes) :
        /\ (p.status = "pending" /\ p.route # 0 /\ p.lastTick.kind = "none")
           => StrokesOf(p.id, p.route) = <<>>
        /\ p.lastTick.kind = "first"
           => /\ p.lastTick.drawn = 1
              /\ StrokesOf(p.id, p.route) = <<LogEntry(p.id, "stroke", p.route, 1)>>
\* The positions of the entries of pass id in the history.
PositionsOf(id) == {k \in DOMAIN log : log[k].pass = id}

\* The number of segments of a route with n decimated waypoints.
SegmentCount(n) == IF n >= 1 THEN n - 1 ELSE 0

\* C18: a render call with duration 0 never schedules a frame and never
\* suspends: it has ended in the step that invoked it, and its clear, its
\* optional fill and the n-1 segments of every route stand together in the
\* history, with no operation of a tick or of another call between them.
C18_InstantCallIsOneStep ==
    \A p \in Range(passes) :
        p.props.duration = 0 =>
          /\ p.status \in {"resolved", "rejected", "returnedNull"}
          /\ p.lastAnimationFrame = Null
          /\ ~HasFrame(p.id, frames)
          /\ p.lastTick.kind = "none"
          /\ \A j, k \in PositionsOf(p.id) : \A m \in j..k : log[m].pass = p.id
          /\ p.status = "resolved" =>
                \A r \in DOMAIN p.props.routes :
                    Len(StrokesOf(p.id, r)) = SegmentCount(Len(Decimated(p, r)))

\* An instantaneous call with two routes of several segments has run while
\* the animation of an earlier call is still scheduled.
C18_Witness ==
    /\ Len(passes) = 2
    /\ passes[2].props.duration = 0
    /\ passes[2].status = "resolved"
    /\ Len(passes[2].props.routes) = 2
    /\ Len(EntriesOf(2)) >= 7
    /\ HasFrame(1, frames)
\* C19: a render call leaves its inputs as they were, in either mode and
\* whether it completes, fails or is superseded: the routes, the waypoints of
\* each route and the geoBounds a call was given are those of the caller when
\* the call starts and stay the same in every later step (the decimation
\* builds a new array).
C19_InputsUnchanged ==
    [][/\ \A i \in DOMAIN passes : passes'[i].props = passes[i].props
       /\ \A i \in DOMAIN passes' : i \notin DOMAIN passes => passes'[i].props \in PropsPool]_vars

\* An animated call that decimates its two routes of four waypoints to two
\* has drawn both while a later call was made.
C19_Witness ==
    /\ Len(passes) = 2
    /\ passes[1].props.duration # 0
    /\ Len(passes[1].props.routes) = 2
    /\ Len(passes[1].signalled) = 2
    /\ Len(passes[1].waypoints) = 2
    /\ Len(passes[1].props.routes[2].waypoints) = 4
    /\ passes[2].status = "rejected"
\* The history entries of pass id as pass other would have made them.
EntriesAs(id, other) ==
    LET es == EntriesOf(id)
    IN  [k \in DOMAIN es |-> [es[k] EXCEPT !.pass = other]]

\* The second call was made with the props of the first, after the first had
\* completed, and has completed too.
RenderedTwice ==
    /\ Len(passes) = 2
    /\ passes[1].props = passes[2].props
    /\ ~passes[2].interrupts
    /\ passes[1].status = "resolved"
    /\ passes[2].status = "resolved"

\* C20: rendering twice in succession with the same routes, bounds and
\* configuration, each call run to completion, leaves the surface as one
\* render of these inputs leaves it, and the second call performs the same
\* operations as the first: no cursor, time or partial path of the first
\* call carries over.
C20_RenderTwiceIsRenderOnce ==
    RenderedTwice =>
      /\ surface = InstantRender(1, passes[1].props).surface
      /\ EntriesAs(2, 1) = EntriesOf(1)
      /\ EntriesOf(1) = InstantRender(1, passes[1].props).log
      /\ passes[2].waypointIndex = passes[1].waypointIndex
      /\ passes[2].signalled = passes[1].signalled

\* Two animated calls with the same props have completed one after the other
\* with several segments on the surface.
C20_Witness ==
    /\ RenderedTwice
    /\ passes[1].props.duration # 0
    /\ Len(passes[1].props.routes) = 2
    /\ Len(surface) >= 6
\* The frames scheduled for pass id that have not run.
FramesOf(id) == {f \in frames : f.pass = id}

\* C21: an animated render has at most one frame scheduled that has not run,
\* the one whose handle it holds; a frame left by a tick is there only with
\* the cursor below n; and once the signal of a route has fired, and so once
\* the call has resolved, no frame of it is outstanding.
C21_AtMostOneTickScheduled ==
    \A p \in Range(passes) :
        /\ Cardinality(FramesOf(p.id)) <= 1
        /\ \A f \in FramesOf(p.id) :
              /\ p.lastAnimationFrame = Some(f.handle)
              /\ p.status = "pending"
              /\ p.props.duration # 0
              /\ p.lastTick.kind # "none" => p.waypointIndex < Len(p.waypoints)
              /\ \A k \in DOMAIN p.signalled : p.signalled[k] < p.routeIndex
        /\ p.status # "pending" => FramesOf(p.id) = {}

\* The second route of a call is between two ticks, after the signal of the
\* first route has fired.
C21_Witness ==
    \E p \in Range(passes) :
        /\ p.signalled = <<1>>
        /\ p.routeIndex = 2
        /\ p.lastTick.kind = "later"
        /\ p.waypointIndex < Len(p.waypoints)
        /\ Cardinality(FramesOf(p.id)) = 1
\* Pass i has been superseded: a later render call was made while it was
\* waiting for a frame whose handle the sweep covers.
Superseded(i) ==
    IF i \in DOMAIN passes /\ i < Len(passes) /\ passes[i].lastAnimationFrame # Null
    THEN /\ passes[i].status = "pending"
         /\ ~passes[i].stepThrew
         /\ Val(passes[i].lastAnimationFrame) < SweepLimit
    ELSE FALSE

\* C22: once the sweep of a later render call has cancelled the frame a pass
\* was waiting for, no step changes that pass: it fires no signal, begins none
\* of its remaining routes, performs no operation on the surface and has no
\* frame scheduled, so it stays suspended for ever.
C22_SupersededPassStaysSuspended ==
    [][\A i \in DOMAIN passes :
          Superseded(i) =>
            /\ passes'[i] = passes[i]
            /\ SelectSeq(log', LAMBDA e : e.pass = i) = EntriesOf(i)
            /\ \A f \in frames \cup frames' : f.pass # i]_vars

\* The first call was superseded while animating the first of its two routes,
\* and the second call has since run its animation to completion.
C22_Witness ==
    /\ Superseded(1)
    /\ passes[1].routeIndex = 1
    /\ Len(passes[1].props.routes) = 2
    /\ passes[1].waypointIndex < Len(passes[1].waypoints)
    /\ passes[2].props.duration # 0
    /\ passes[2].status = "resolved"
    /\ Len(passes[2].signalled) = 2
\* The position of waypoint w in seq (the waypoints of a route are distinct).
PositionIn(seq, w) == CHOOSE k \in DOMAIN seq : seq[k] = w

\* C23: with resolution 1 the decimation is the identity, and for every
\* resolution in (0, 1] the decimated sequence is a subsequence of the
\* route's waypoints in their order with no index twice: its waypoints come
\* from strictly increasing positions, also when index 0 or the last index is
\* a multiple of the stride.
C23_DecimationIsSubsequence ==
    probe.fn = "decimate" =>
      LET w == probe.waypoints
          res == probe.result
      IN  /\ \A j \in DOMAIN res : res[j] \in Range(w)
          /\ \A j \in DOMAIN res :
                j < Len(res) => PositionIn(w, res[j]) < PositionIn(w, res[j + 1])
          /\ Len(res) <= Len(w)
          /\ probe.resolution.num = probe.resolution.den => res = w

\* Seven waypoints with stride 3: the last index, 6, is a multiple of the
\* stride as index 0 is, and is kept once.
C23_Witness ==
    /\ probe.fn = "decimate"
    /\ probe.resolution = Frac(1, 3)
    /\ Len(probe.waypoints) = 7
    /\ Len(probe.result) = 3
    /\ probe.result[3] = probe.waypoints[7]
IsLowerRight(c, b) == c.lat = b.lowerLat /\ c.lon = b.rightLon

\* The pixel of a coordinate within the bounds (edges included) is on the
\* canvas, and the lower right corner of the bounds is the pixel
\* (width, height).
InsideProjectsInside ==
    LET c == probe.coord
        b == probe.geoBounds
    IN  /\ (b.leftLon <= c.lon /\ c.lon <= b.rightLon)
           => (0 <= probe.result.x /\ probe.result.x <= probe.width)
        /\ (b.lowerLat <= c.lat /\ c.lat <= b.upperLat)
           => (0 <= probe.result.y /\ probe.result.y <= probe.height)
        /\ IsLowerRight(c, b) => probe.result = [x |-> probe.width, y |-> probe.height]

\* C24, as stated: a coordinate within the bounds projects onto the canvas,
\* the lower right corner to (width, height), and a coordinate outside the
\* bounds projects to x < 0, x > width, y < 0 or y > height accordingly.
C24_OutsideProjectsOutside ==
    probe.fn = "project" =>
      LET c == probe.coord
          b == probe.geoBounds
      IN  /\ InsideProjectsInside
          /\ c.lon < b.leftLon => probe.result.x < 0
          /\ c.lon > b.rightLon => probe.result.x > probe.width
          /\ c.lat > b.upperLat => probe.result.y < 0
          /\ c.lat < b.lowerLat => probe.result.y > probe.height

\* C24, amended: a coordinate within the bounds projects onto the canvas and
\* the lower right corner to (width, height); a coordinate outside the bounds
\* is not clamped but rounded: its pixel is at or beyond the edge it lies
\* past, and strictly beyond exactly when the coordinate is half a pixel or
\* more past the edge (more than half a pixel on the side of 0, where a tie
\* rounds up to 0).
C24_OutsideRoundsToEdgeOrBeyond ==
    probe.fn = "project" =>
      LET c == probe.coord
          b == probe.geoBounds
          xRange == b.rightLon - b.leftLon
          yRange == b.upperLat - b.lowerLat
      IN  /\ InsideProjectsInside
          /\ c.lon < b.leftLon =>
                /\ probe.result.x <= 0
                /\ probe.result.x < 0 <=> 2 * (b.leftLon - c.lon) * probe.width > xRange
          /\ c.lon > b.rightLon =>
                /\ probe.result.x >= probe.width
                /\ probe.result.x > probe.width
                     <=> 2 * (c.lon - b.rightLon) * probe.width >= xRange
          /\ c.lat > b.upperLat =>
                /\ probe.result.y <= 0
                /\ probe.result.y < 0 <=> 2 * (c.lat - b.upperLat) * probe.height > yRange
          /\ c.lat < b.lowerLat =>
                /\ probe.result.y >= probe.height
                /\ probe.result.y > probe.height
                     <=> 2 * (b.lowerLat - c.lat) * probe.height >= yRange

\* A coordinate one degree east of the bounds and far north of them, on a
\* canvas 4 wide: the pixel is on the right edge and far above the top.
C24_Witness ==
    /\ probe.fn = "project"
    /\ probe.geoBounds.rightLon = 10
    /\ probe.coord = [lat |-> 10, lon |-> 11]
    /\ probe.width = 4
    /\ probe.result.x = 4
====
